---------------------------- MODULE Spec2Model ----------------------------
(***************************************************************************)
(* Model of ml_api_streamlit.py: one run of main() (a Streamlit script     *)
(* run), from the text input to the rendered page.                         *)
(*                                                                         *)
(* Python values are modelled as follows.                                  *)
(*   - A dict is a TLA+ record whose DOMAIN holds exactly the keys that    *)
(*     are present; d.get(k, dflt) is Get(d, k, dflt).                     *)
(*   - None is the record None; a str is Str(s) with s a sequence of       *)
(*     one-character strings; a number is Num(n); a bool is Bool(b).       *)
(*   - An uncaught exception ends the run in pc = "excecao".               *)
(***************************************************************************)
EXTENDS Integers, Sequences, FiniteSets, TLC

VARIABLES
    pc,              \* position of the run inside main()
    busca,           \* main: busca (the text typed by the user)
    offset,          \* main: loop variable of the page loop (next offset)
    resposta,        \* buscar_produtos_ml: the outcome of requests.get, while
                     \* the call handles it
    todos_produtos,  \* main: todos_produtos
    buscados,        \* history: every RawProduct fetched, in call order
    chamadas,        \* history: the (offset, limit) of every request issued
    df,              \* main: df (rows keep their index label idx)
    ordem,           \* widget: selectbox "Ordenar por preco"
    filtro_frete,    \* widget: checkbox "Apenas frete gratis"
    condicao,        \* widget: multiselect "Condicao do produto"
    saida,           \* the elements rendered on the page, in order
    excecao,         \* name of the uncaught exception, "" when none
    catalogo         \* environment: the products the marketplace holds

vars == <<pc, busca, offset, resposta, todos_produtos, buscados,
          chamadas, df, ordem, filtro_frete, condicao, saida, excecao,
          catalogo>>

---------------------------------------------------------------------------
(* Bounds of the model *)

\* most records one search receives over all its pages
MaxBuscados == 3
\* most records one page response carries
MaxPagina == 2
\* longest query text drawn for the exact-match filter
MaxConsulta == 4
\* longest product list drawn for the exact-match filter
MaxLista == 2

---------------------------------------------------------------------------
(* Program constants *)

\* range(0, 500, 50): first offset, end (exclusive) and step
OffsetInicial == 0
OffsetFim == 500
OffsetPasso == 50
\* buscar_produtos_ml(query, offset=0, limit=50)
LimitPadrao == 50

---------------------------------------------------------------------------
(* Python values *)

None == [none |-> TRUE]
NaN == [nan |-> TRUE]
Str(s) == [str |-> s]
Num(n) == [num |-> n]
Bool(b) == [bool |-> b]

IsNone(v) == DOMAIN v = {"none"}
IsNum(v) == DOMAIN v = {"num"}
IsStr(v) == DOMAIN v = {"str"}

\* dict.get(key, default)
Get(d, k, dflt) == IF k \in DOMAIN d THEN d[k] ELSE dflt

\* truth value of None / bool, the only values tested for truth here
Truthy(v) == IF DOMAIN v = {"bool"} THEN v.bool ELSE FALSE

\* mutant of TruthyStr: the test `if busca:` left out
TruthyStr_sempre(s) == TRUE

\* truth value of a str: `if busca:`
TruthyStr(s) == s # <<>>

\* list.extend
Extend(a, b) == a \o b

QUOTE == "\""

\* str.lower() on the letters of the model's alphabet
LowerChar(c) == IF c = "A" THEN "a" ELSE IF c = "B" THEN "b" ELSE c
Lower(s) == [i \in 1..Len(s) |-> LowerChar(s[i])]

\* the Python test `sub in s` on strings
In(sub, s) ==
    \E i \in 0..(Len(s) - Len(sub)) : SubSeq(s, i + 1, i + Len(sub)) = sub

Reverse(s) == [i \in 1..Len(s) |-> s[Len(s) + 1 - i]]

---------------------------------------------------------------------------
(* processar_busca_exata *)

\* position of the first QUOTE of q at or after pos, 0 when there is none
ProximaAspa(q, pos) ==
    IF \E i \in pos..Len(q) : q[i] = QUOTE
    THEN CHOOSE i \in pos..Len(q) :
             q[i] = QUOTE /\ \A j \in pos..(i - 1) : q[j] # QUOTE
    ELSE 0

RECURSIVE FindAllFrom(_, _)
\* re.findall(r'"([^"]*)"', q) restricted to matches starting at or after pos:
\* the leftmost opening quote that has a closing quote, the text between
\* them, and the scan resumes after the closing quote
FindAllFrom(q, pos) ==
    LET abre == ProximaAspa(q, pos)
        fecha == IF abre = 0 THEN 0 ELSE ProximaAspa(q, abre + 1)
    IN  IF abre = 0 \/ fecha = 0
        THEN <<>>
        ELSE <<SubSeq(q, abre + 1, fecha - 1)>> \o FindAllFrom(q, fecha + 1)

FindAll(q) == FindAllFrom(q, 1)

\* line 54-55 for one product whose title is a str or absent
TituloContemTodos(produto, termos_exatos) ==
    LET titulo == Lower(Get(produto, "title", Str(<<>>)).str)
    IN  \A k \in 1..Len(termos_exatos) : In(Lower(termos_exatos[k]), titulo)

\* None.lower() at line 54: the key is present and its value is None
TituloNulo(produto) == IsNone(Get(produto, "title", Str(<<>>)))

\* processar_busca_exata(produtos, query): [raises, valor]
processar_busca_exata(lista, query) ==
    LET termos_exatos == FindAll(query)
    IN  IF termos_exatos = <<>>
        THEN [raises |-> "", valor |-> lista]
        ELSE IF \E k \in 1..Len(lista) : TituloNulo(lista[k])
        THEN [raises |-> "AttributeError", valor |-> <<>>]
        ELSE [raises |-> "",
              valor |-> SelectSeq(lista,
                            LAMBDA p : TituloContemTodos(p, termos_exatos))]

---------------------------------------------------------------------------
(* buscar_produtos_ml *)

\* mutant of buscar_produtos_ml: the except branch returns [] without st.error
buscar_produtos_ml_silencioso(r) ==
    IF r.status = "ok"
    THEN [retorno |-> Get(r.body, "results", <<>>), erros |-> 0]
    ELSE [retorno |-> <<>>, erros |-> 0]

\* buscar_produtos_ml(query, offset, limit) given the outcome r of
\* requests.get / raise_for_status: [retorno, erros]
buscar_produtos_ml(r) ==
    IF r.status = "ok"
    THEN [retorno |-> Get(r.body, "results", <<>>), erros |-> 0]
    ELSE [retorno |-> <<>>, erros |-> 1]

\* mutant of URL: the offset left out of the URL, so every request asks for
\* the first page
URL_sem_offset(o, l) == [offset |-> 0, limit |-> l]

\* line 15: the offset and limit the request URL carries
URL(o, l) == [offset |-> o, limit |-> l]

\* the records a response carries (none when the request failed)
Recebidos(r) ==
    IF r.status = "ok" /\ "results" \in DOMAIN r.body THEN r.body.results ELSE <<>>

---------------------------------------------------------------------------
(* extrair_dados_produto *)

\* produto.get('shipping', {}).get(...) raises when shipping is None
extrair_raises(produto) ==
    "shipping" \in DOMAIN produto /\ IsNone(produto.shipping)

extrair_dados_produto(produto) ==
    [Nome |-> Get(produto, "title", None),
     Preco |-> Get(produto, "price", None),
     Link |-> Get(produto, "permalink", None),
     Condicao |-> IF Get(produto, "condition", None) = Str("new")
                  THEN "Novo" ELSE "Usado",
     Frete |-> IF "shipping" \in DOMAIN produto
                  /\ Truthy(Get(produto.shipping, "free_shipping", None))
               THEN "Sim" ELSE "Nao",
     Vendidos |-> Get(produto, "sold_quantity", Num(0))]

---------------------------------------------------------------------------
(* pandas: DataFrame construction, filters, sort_values *)

\* pd.DataFrame(dados_produtos): the column 'Preco' turns None into NaN when
\* it holds a number (float64), and keeps None when it holds none (object);
\* every row gets the index label idx = its position, from 0
DataFrame(dados) ==
    LET numerica == \E k \in 1..Len(dados) : IsNum(dados[k].Preco)
    IN  [k \in 1..Len(dados) |->
            [idx |-> k - 1,
             Nome |-> dados[k].Nome,
             Preco |-> IF numerica /\ IsNone(dados[k].Preco)
                       THEN NaN ELSE dados[k].Preco,
             Link |-> dados[k].Link,
             Condicao |-> dados[k].Condicao,
             Frete |-> dados[k].Frete,
             Vendidos |-> dados[k].Vendidos]]

\* line 91: f'R$ {x:,.2f}' raises TypeError when x is None (NaN formats);
\* the text of the column 'Preco Formatado' is not carried in the rows
formatar_raises(frame) == \E k \in 1..Len(frame) : IsNone(frame[k].Preco)

\* line 113: df[df['Frete Gratis'] == 'Sim']
FiltrarFrete(frame) == SelectSeq(frame, LAMBDA r : r.Frete = "Sim")

\* line 116: df[df['Condicao'].isin(condicao)]
FiltrarCondicao(frame, sel) == SelectSeq(frame, LAMBDA r : r.Condicao \in sel)

\* lines 112-113
AplicarFrete(frame, frete) == IF frete THEN FiltrarFrete(frame) ELSE frame

\* mutant of AplicarCondicao: the guard `if condicao:` left out
AplicarCondicao_sem_guarda(frame, sel) == FiltrarCondicao(frame, sel)

\* mutant of AplicarCondicao: the selected rows appended to the frame
\* (pd.concat) instead of replacing it
AplicarCondicao_concat(frame, sel) ==
    IF sel # {} THEN frame \o FiltrarCondicao(frame, sel) ELSE frame

\* lines 115-116
AplicarCondicao(frame, sel) ==
    IF sel # {} THEN FiltrarCondicao(frame, sel) ELSE frame

\* the orders of 1..n
Permutacoes(n) ==
    {f \in [1..n -> 1..n] : \A i, j \in 1..n : i # j => f[i] # f[j]}

\* mutant of sort_values: the argument ascending ignored
sort_values_so_crescente(frame, asc) ==
    LET com == SelectSeq(frame, LAMBDA r : IsNum(r.Preco))
        sem == SelectSeq(frame, LAMBDA r : ~IsNum(r.Preco))
        n == Len(com)
        ordenada(f) ==
            \A i \in 1..(n - 1) : com[f[i]].Preco.num <= com[f[i + 1]].Preco.num
    IN  {[i \in 1..n |-> com[f[i]]] \o sem : f \in {g \in Permutacoes(n) : ordenada(g)}}

\* mutant of sort_values: the sorted frame is not assigned, df stays as it was
sort_values_descartado(frame, asc) == {frame}

\* df.sort_values('Preco', ascending=asc): kind defaults to 'quicksort', which
\* is not stable, so rows of equal price come out in any relative order; NaN
\* rows go last (na_position='last') in both directions, in index order.
\* The set of frames the call may return.
sort_values(frame, asc) ==
    LET com == SelectSeq(frame, LAMBDA r : IsNum(r.Preco))
        sem == SelectSeq(frame, LAMBDA r : ~IsNum(r.Preco))
        n == Len(com)
        ordenada(f) ==
            \A i \in 1..(n - 1) :
                IF asc THEN com[f[i]].Preco.num <= com[f[i + 1]].Preco.num
                       ELSE com[f[i]].Preco.num >= com[f[i + 1]].Preco.num
    IN  {[i \in 1..n |-> com[f[i]]] \o sem : f \in {g \in Permutacoes(n) : ordenada(g)}}

\* lines 130-134: mean, min and max of 'Preco' skip NaN, and are NaN when no
\* row has a price; the mean is kept as the pair (sum, count)
Soma(frame) ==
    LET RECURSIVE S(_)
        S(k) == IF k = 0 THEN 0
                ELSE S(k - 1) + (IF IsNum(frame[k].Preco) THEN frame[k].Preco.num ELSE 0)
    IN  S(Len(frame))

Metricas(frame) ==
    LET ps == {frame[k].Preco.num : k \in {i \in 1..Len(frame) : IsNum(frame[i].Preco)}}
    IN  IF ps = {}
        THEN [media |-> NaN, minimo |-> NaN, maximo |-> NaN]
        ELSE [media |-> [soma |-> Soma(frame),
                         n |-> Len(SelectSeq(frame, LAMBDA r : IsNum(r.Preco)))],
              minimo |-> Num(CHOOSE x \in ps : \A y \in ps : x <= y),
              maximo |-> Num(CHOOSE x \in ps : \A y \in ps : x >= y)]

---------------------------------------------------------------------------
(* The environment: what the marketplace may return, what the user may type *)

\* products the search API may return; a key that is absent from a record is
\* absent from the JSON object, a None value is a JSON null.
\* Well-formed products: every price, with a tie, and every combination of
\* condition and free shipping
CatalogoPrecos ==
    << [title |-> Str(<<"a">>), price |-> Num(2), permalink |-> Str(<<"1">>),
        condition |-> Str("new"), shipping |-> [free_shipping |-> Bool(TRUE)],
        sold_quantity |-> Num(1)],
       [title |-> Str(<<"A", "b">>), price |-> Num(1), permalink |-> Str(<<"2">>),
        condition |-> Str("used"), shipping |-> [free_shipping |-> Bool(FALSE)]],
       [title |-> Str(<<"b">>), price |-> Num(2), permalink |-> Str(<<"3">>),
        condition |-> Str("new"), shipping |-> [mode |-> Str("me2")],
        sold_quantity |-> Num(0)],
       [title |-> Str(<<"a", "B">>), price |-> Num(3), permalink |-> Str(<<"4">>),
        condition |-> Str("used"), shipping |-> [free_shipping |-> Bool(TRUE)],
        sold_quantity |-> Num(2)] >>

\* Products with null or missing fields, beside a well-formed one
CatalogoFormas ==
    << [title |-> Str(<<"a">>), price |-> Num(2), permalink |-> Str(<<"1">>),
        condition |-> Str("new"), shipping |-> [free_shipping |-> Bool(TRUE)],
        sold_quantity |-> Num(1)],
       [title |-> None, price |-> None, permalink |-> Str(<<"5">>),
        condition |-> Str("new")],
       [price |-> Num(3), permalink |-> Str(<<"6">>), shipping |-> None] >>

\* sequences over S of length lo..hi
SeqsAte(S, hi) == UNION {[1..n -> S] : n \in 0..hi}

Min(a, b) == IF a <= b THEN a ELSE b

\* the result arrays a page may carry once n records were received
Paginas(n) ==
    {[k \in 1..Len(p) |-> catalogo[p[k]]] :
        p \in SeqsAte(1..Len(catalogo), Min(MaxPagina, MaxBuscados - n))}

\* outcomes of requests.get + raise_for_status + response.json():
\* a RequestException, a body with 'results', a body without it
Respostas(n) ==
    {[status |-> "erro"]}
        \cup {[status |-> "ok", body |-> [results |-> p]] : p \in Paginas(n)}
        \cup {[status |-> "ok", body |-> [site_id |-> Str("MLB")]]}

\* texts the user types in the run of main
Consultas == {<<>>, <<"a">>, <<QUOTE, "a", QUOTE>>}

OrdemOpcoes == {"Menor para maior", "Maior para menor"}
CondicaoOpcoes == {"Novo", "Usado"}

---------------------------------------------------------------------------
(* main: one script run *)

El(t) == [tipo |-> t]

\* no request is being handled
SemResposta == [status |-> "nenhuma"]

\* lines 61-72: page config, title, the two help texts, the text input
Cabecalho == <<El("title"), El("write"), El("write"), El("text_input")>>

\* the st.error elements on the page
Erros(pagina) == Len(SelectSeq(pagina, LAMBDA e : e.tipo = "error"))

Init ==
    /\ pc = "inicio"
    /\ busca = <<>>
    /\ offset = OffsetInicial
    /\ resposta = SemResposta
    /\ todos_produtos = <<>>
    /\ buscados = <<>>
    /\ chamadas = <<>>
    /\ df = <<>>
    /\ ordem = "Menor para maior"
    /\ filtro_frete = FALSE
    /\ condicao = CondicaoOpcoes
    /\ saida = <<>>
    /\ excecao = ""
    /\ catalogo \in {CatalogoPrecos, CatalogoFormas}

\* lines 61-77: the header is rendered, the text is read; `if busca:` starts
\* the page loop only for a non-empty text
Entrada ==
    /\ pc = "inicio"
    /\ \E q \in Consultas :
        /\ busca' = q
        /\ pc' = IF TruthyStr(q) THEN "buscar" ELSE "fim"
    /\ saida' = Cabecalho
    /\ todos_produtos' = <<>>
    /\ offset' = OffsetInicial
    /\ UNCHANGED <<resposta, buscados, chamadas, df, ordem,
                   filtro_frete, condicao, excecao, catalogo>>

\* lines 78-79 and 12-19: an iteration of `for offset in range(0, 500, 50)`
\* calls buscar_produtos_ml, which builds the URL and blocks in requests.get
\* and raise_for_status until their outcome r is there
Requisitar ==
    /\ pc = "buscar"
    /\ offset < OffsetFim
    /\ chamadas' = Append(chamadas, URL(offset, LimitPadrao))
    /\ \E r \in Respostas(Len(buscados)) : resposta' = r
    /\ pc' = "tratar"
    /\ UNCHANGED <<busca, offset, todos_produtos, buscados, df, ordem,
                   filtro_frete, condicao, saida, excecao, catalogo>>

\* lines 20-24 and 79-80: buscar_produtos_ml returns the results, or reports
\* the error and returns []; main extends the list and goes to the next offset
Tratar ==
    /\ pc = "tratar"
    /\ LET res == buscar_produtos_ml(resposta)
       IN  /\ todos_produtos' = Extend(todos_produtos, res.retorno)
           /\ saida' = IF res.erros = 1 THEN Append(saida, El("error")) ELSE saida
    /\ buscados' = buscados \o Recebidos(resposta)
    /\ resposta' = SemResposta
    /\ offset' = offset + OffsetPasso
    /\ pc' = IF offset + OffsetPasso < OffsetFim THEN "buscar" ELSE "filtrar"
    /\ UNCHANGED <<busca, chamadas, df, ordem, filtro_frete, condicao, excecao,
                   catalogo>>

\* lines 83-85 and 168-169: the exact-match filter, then `if todos_produtos:`
\* with its else branch, the warning
FiltrarExato ==
    /\ pc = "filtrar"
    /\ LET res == processar_busca_exata(todos_produtos, busca)
       IN  IF res.raises # ""
           THEN /\ excecao' = res.raises
                /\ pc' = "excecao"
                /\ UNCHANGED <<todos_produtos, saida>>
           ELSE /\ todos_produtos' = res.valor
                /\ excecao' = excecao
                /\ IF Len(res.valor) > 0
                   THEN pc' = "projetar" /\ saida' = saida
                   ELSE pc' = "fim" /\ saida' = Append(saida, El("warning"))
    /\ UNCHANGED <<busca, offset, resposta, buscados, chamadas, df,
                   ordem, filtro_frete, condicao, catalogo>>

\* lines 87-91: the projection of every product, the DataFrame, the
\* formatted price column
Projetar ==
    /\ pc = "projetar"
    /\ IF \E k \in 1..Len(todos_produtos) : extrair_raises(todos_produtos[k])
       THEN excecao' = "AttributeError" /\ pc' = "excecao" /\ df' = df
       ELSE LET dados_produtos ==
                    [k \in 1..Len(todos_produtos) |->
                        extrair_dados_produto(todos_produtos[k])]
                frame == DataFrame(dados_produtos)
            IN  IF formatar_raises(frame)
                THEN excecao' = "TypeError" /\ pc' = "excecao" /\ df' = frame
                ELSE excecao' = excecao /\ pc' = "widgets" /\ df' = frame
    /\ UNCHANGED <<busca, offset, resposta, todos_produtos, buscados,
                   chamadas, ordem, filtro_frete, condicao, saida, catalogo>>

\* lines 94-113: the three widgets return what the user has set, then the
\* free-shipping filter
WidgetsFrete ==
    /\ pc = "widgets"
    /\ \E o \in OrdemOpcoes, f \in BOOLEAN, c \in SUBSET CondicaoOpcoes :
        /\ ordem' = o
        /\ filtro_frete' = f
        /\ condicao' = c
        /\ df' = AplicarFrete(df, f)
    /\ pc' = "condicao"
    /\ UNCHANGED <<busca, offset, resposta, todos_produtos, buscados,
                   chamadas, saida, excecao, catalogo>>

\* lines 115-116: the condition filter
Condicao ==
    /\ pc = "condicao"
    /\ df' = AplicarCondicao(df, condicao)
    /\ pc' = "ordenar"
    /\ UNCHANGED <<busca, offset, resposta, todos_produtos, buscados,
                   chamadas, ordem, filtro_frete, condicao, saida, excecao,
                   catalogo>>

\* lines 119-166: the sort, then the count, the three metrics, the table and
\* the chart of the sorted frame
OrdenarExibir ==
    /\ pc = "ordenar"
    /\ df' \in sort_values(df, ordem = "Menor para maior")
    /\ saida' = saida \o
          << [tipo |-> "write", n |-> Len(df')],
             [tipo |-> "metric", valores |-> Metricas(df')],
             [tipo |-> "dataframe", linhas |-> df'],
             El("subheader"),
             [tipo |-> "altair_chart", linhas |-> df'] >>
    /\ pc' = "fim"
    /\ UNCHANGED <<busca, offset, resposta, todos_produtos, buscados,
                   chamadas, ordem, filtro_frete, condicao, excecao, catalogo>>

Next ==
    \/ Entrada
    \/ Requisitar
    \/ Tratar
    \/ FiltrarExato
    \/ Projetar
    \/ WidgetsFrete
    \/ Condicao
    \/ OrdenarExibir

Spec == Init /\ [][Next]_vars

---------------------------------------------------------------------------
(* The exact-match filter on drawn inputs: the run stands at line 83 with   *)
(* the ten pages fetched, and the filter step is taken                      *)

Alfabeto == {"a", "A", "b", QUOTE}

ConsultasExata == SeqsAte(Alfabeto, MaxConsulta) \ {<<>>}

\* products whose titles differ in letters and case, one without the key
\* title and one whose title is null
CatalogoTitulos ==
    << [title |-> Str(<<"A", "b">>), price |-> Num(1)],
       [title |-> Str(<<"b", "a">>), price |-> Num(2)],
       [title |-> Str(<<"B">>), price |-> Num(3)],
       [price |-> Num(4)],
       [title |-> None, price |-> Num(5)] >>

NumPaginas == (OffsetFim - OffsetInicial) \div OffsetPasso

InitExata ==
    /\ pc = "filtrar"
    /\ busca \in ConsultasExata
    /\ catalogo = CatalogoTitulos
    /\ \E p \in SeqsAte(1..Len(CatalogoTitulos), MaxLista) :
        /\ todos_produtos = [k \in 1..Len(p) |-> CatalogoTitulos[p[k]]]
        /\ buscados = todos_produtos
    /\ offset = OffsetFim
    /\ chamadas = [k \in 1..NumPaginas |->
                      URL(OffsetInicial + (k - 1) * OffsetPasso, LimitPadrao)]
    /\ resposta = SemResposta
    /\ df = <<>>
    /\ ordem = "Menor para maior"
    /\ filtro_frete = FALSE
    /\ condicao = CondicaoOpcoes
    /\ saida = Cabecalho
    /\ excecao = ""

NextExata == FiltrarExato

SpecExata == InitExata /\ [][NextExata]_vars

---------------------------------------------------------------------------
(* Properties *)

\* an element of type t is on the page
Tem(t) == \E k \in 1..Len(saida) : saida[k].tipo = t

\* the results (count, metrics, table, chart) are on the page
Exibiu == Tem("dataframe")

\* C9: with an empty query text the run issues no fetch call and renders
\* nothing but the page header (no results, no notice, no error message);
\* a fetch call is issued only in a run whose query text is non-empty.
C9_ConsultaVaziaNaoBusca ==
    /\ (pc # "inicio" /\ busca = <<>>) =>
          (pc = "fim" /\ chamadas = <<>> /\ saida = Cabecalho)
    /\ chamadas # <<>> => busca # <<>>

C9_Witness == pc = "fim" /\ busca = <<>> /\ saida = Cabecalho /\ chamadas = <<>>

\* C5: a search issues its requests at offsets 0, 50, 100, ... in that order
\* with limit 50, never one offset twice; a request is issued only when every
\* earlier one was handled (the number issued is the number handled, plus one
\* while a call is handling its outcome); once the page loop is over exactly
\* 10 requests were issued; and until the exact-match filter runs the
\* aggregated list is the concatenation, in call order, of the records
\* received (nothing dropped, nothing deduplicated).
C5_DezPaginasEmOrdem ==
    /\ \A k \in 1..Len(chamadas) :
          chamadas[k] = [offset |-> 50 * (k - 1), limit |-> 50]
    /\ Len(chamadas) <= 10
    /\ (busca # <<>> /\ pc \notin {"buscar", "tratar"}) => Len(chamadas) = 10
    /\ pc = "buscar" => Len(chamadas) < 10
    /\ Len(chamadas) = (offset \div 50) + (IF pc = "tratar" THEN 1 ELSE 0)
    /\ pc \in {"buscar", "tratar", "filtrar"} => todos_produtos = buscados

C5_Witness ==
    /\ pc = "filtrar"
    /\ Len(chamadas) = 10
    /\ Len(todos_produtos) = MaxBuscados
    /\ \E i, j \in 1..Len(todos_produtos) : i # j /\ todos_produtos[i] = todos_produtos[j]

\* C4: in every iteration of the page loop, a failed request adds no record
\* to the aggregated list and exactly one error message to the page, a
\* successful one adds its records at the end of the list and no error
\* message, and in both cases the loop goes on: the next offset is requested
\* until the 10 pages are done. So the aggregated list is the concatenation
\* of the successful pages' records.
C4_PassoDaBusca ==
    /\ (pc = "tratar") =>
          /\ resposta.status = "erro" =>
                /\ todos_produtos' = todos_produtos
                /\ Erros(saida') = Erros(saida) + 1
          /\ resposta.status = "ok" =>
                /\ todos_produtos' = todos_produtos \o Recebidos(resposta)
                /\ Erros(saida') = Erros(saida)
          /\ pc' = IF Len(chamadas) < 10 THEN "buscar" ELSE "filtrar"
    /\ (pc = "buscar") =>
          /\ Len(chamadas') = Len(chamadas) + 1
          /\ pc' = "tratar"

\* C4: every step of the page loop is as C4_PassoDaBusca says, and while the
\* loop runs and when it ends the aggregated list is the concatenation of the
\* records of the successful responses, with at most one error message per
\* request.
C4_FalhaDePaginaENaoFatal ==
    /\ [][C4_PassoDaBusca]_vars
    /\ [](pc \in {"buscar", "tratar", "filtrar"} =>
            /\ todos_produtos = buscados
            /\ Erros(saida) <= Len(chamadas))

C4_Witness ==
    /\ pc = "filtrar"
    /\ Erros(saida) >= 2
    /\ Erros(saida) < 10
    /\ Len(todos_produtos) >= 2

\* a is b with some elements left out, the order kept
IsSubseq(a, b) ==
    \E f \in [1..Len(a) -> 1..Len(b)] :
        /\ \A i, j \in 1..Len(a) : i < j => f[i] < f[j]
        /\ \A i \in 1..Len(a) : a[i] = b[f[i]]

\* row r of a frame is the projection of the product it is labelled with
LinhaDeProduto(r) ==
    /\ r.idx + 1 \in 1..Len(todos_produtos)
    /\ LET d == extrair_dados_produto(todos_produtos[r.idx + 1])
       IN  /\ r.Nome = d.Nome
           /\ r.Link = d.Link
           /\ r.Condicao = d.Condicao
           /\ r.Frete = d.Frete
           /\ r.Vendidos = d.Vendidos
           /\ r.Preco = IF IsNone(d.Preco) /\ r.Preco = NaN THEN NaN ELSE d.Preco

\* C10: at every point of a run the list kept after the exact-match filter,
\* and the frame kept after the projection, the filters and the sort, hold at
\* most as many records as were fetched; the filtered list is the fetched
\* list with records left out; every row of the frame, and of the table
\* shown, is the projection of a distinct fetched product.
C10_EtapasSoRemovem ==
    /\ Len(todos_produtos) <= Len(buscados)
    /\ IsSubseq(todos_produtos, buscados)
    /\ Len(df) <= Len(buscados)
    /\ \A i, j \in 1..Len(df) : i # j => df[i].idx # df[j].idx
    /\ \A i \in 1..Len(df) : LinhaDeProduto(df[i])
    /\ \A k \in 1..Len(saida) :
          saida[k].tipo \in {"dataframe", "altair_chart"} => saida[k].linhas = df

C10_Witness ==
    /\ pc = "fim"
    /\ Exibiu
    /\ Len(todos_produtos) < Len(buscados)
    /\ Len(df) < Len(todos_produtos)
    /\ Len(df) >= 1

\* the index labels of the rows that pass the free-shipping filter when it is
\* set, and of all rows when it is not
PassamFrete ==
    {k \in 0..(Len(todos_produtos) - 1) :
        filtro_frete => extrair_dados_produto(todos_produtos[k + 1]).Frete = "Sim"}

Rotulos(frame) == {frame[i].idx : i \in 1..Len(frame)}

\* C1 as stated: with no condition selected no record is left to display.
C1_SelecaoVaziaNadaExibe ==
    (pc \in {"ordenar", "fim"} /\ condicao = {}) => df = <<>>

\* C1 amended: with no condition selected the condition filter is skipped:
\* the records left are exactly those that pass the free-shipping filter
\* (all of them when the checkbox is not set).
C1_SelecaoVaziaNaoFiltra ==
    (pc \in {"ordenar", "fim"} /\ condicao = {}) =>
        /\ Rotulos(df) = PassamFrete
        /\ Len(df) = Cardinality(PassamFrete)

C1_Witness ==
    /\ pc = "fim"
    /\ Exibiu
    /\ condicao = {}
    /\ filtro_frete
    /\ Len(df) >= 2
    /\ Len(df) < Len(todos_produtos)

\* C2 as stated: when no record is left after the exact-match, free-shipping
\* and condition filters, the run of a non-empty query ends with the warning
\* on the page and without metrics, table or chart.
C2_VazioMostraAviso ==
    (pc = "fim" /\ busca # <<>> /\ df = <<>>) =>
        /\ Tem("warning")
        /\ ~Tem("metric")
        /\ ~Tem("dataframe")
        /\ ~Tem("altair_chart")

\* C3 as stated: no run ends with an uncaught exception.
C3_SemExcecao == pc # "excecao" /\ excecao = ""

\* the rows that have a price come before those that have none, and are in
\* the order the selection asks for
OrdenadaPorPreco(frame, o) ==
    \A i, j \in 1..Len(frame) :
        i < j =>
            /\ IsNum(frame[j].Preco) => IsNum(frame[i].Preco)
            /\ (IsNum(frame[i].Preco) /\ IsNum(frame[j].Preco)) =>
                  IF o = "Menor para maior"
                  THEN frame[i].Preco.num <= frame[j].Preco.num
                  ELSE frame[i].Preco.num >= frame[j].Preco.num

\* rows of equal price are in the order of their index labels (fetch order)
EmpatesNaOrdemDaBusca(frame) ==
    \A i, j \in 1..Len(frame) :
        (i < j /\ frame[i].Preco = frame[j].Preco) => frame[i].idx < frame[j].idx

\* C7 as stated: the table shown is ordered by price in the direction
\* selected, and rows of equal price keep their fetch order.
C7_OrdenacaoEstavel ==
    (pc = "fim" /\ Exibiu) =>
        /\ OrdenadaPorPreco(df, ordem)
        /\ EmpatesNaOrdemDaBusca(df)

\* C7 amended: the sort step returns the same rows, those with a price
\* ordered by price in the direction selected and those without a price
\* last; the relative order of rows of equal price is not fixed.
C7_PassoOrdena ==
    (pc = "ordenar") =>
        /\ Len(df') = Len(df)
        /\ {df'[i] : i \in 1..Len(df')} = {df[i] : i \in 1..Len(df)}
        /\ OrdenadaPorPreco(df', ordem)

\* C7 amended: every sort step is as C7_PassoOrdena says.
C7_OrdenadaEPermutacao == [][C7_PassoOrdena]_vars

C7_Witness ==
    /\ pc = "fim"
    /\ Exibiu
    /\ ordem = "Maior para menor"
    /\ Len(df) = 3
    /\ \E i, j \in 1..Len(df) :
          i < j /\ df[i].Preco = df[j].Preco /\ df[i].idx > df[j].idx

\* every row has a price and no two rows have the same price
PrecosDistintos(frame) ==
    /\ \A i \in 1..Len(frame) : IsNum(frame[i].Preco)
    /\ \A i, j \in 1..Len(frame) : i # j => frame[i].Preco # frame[j].Preco

\* C8: when the filtered rows all have a price and the prices are pairwise
\* distinct, the frame the sort step returns under one direction is the
\* reverse of every frame sort_values returns for the same rows under the
\* other direction, and holds the same rows.
C8_PassoInverso ==
    (pc = "ordenar" /\ PrecosDistintos(df)) =>
        /\ \A outro \in sort_values(df, ordem # "Menor para maior") :
              df' = Reverse(outro)
        /\ {df'[i] : i \in 1..Len(df')} = {df[i] : i \in 1..Len(df)}

PosicoesAspas(q) == {i \in 1..Len(q) : q[i] = QUOTE}

\* the k-th smallest element of a set of numbers
Kesimo(S, k) == CHOOSE x \in S : Cardinality({y \in S : y < x}) = k - 1

\* the double-quoted terms of q: the text between the 1st and 2nd quote,
\* between the 3rd and 4th, and so on
TermosEntreAspas(q) ==
    LET P == PosicoesAspas(q)
    IN  [k \in 1..(Cardinality(P) \div 2) |->
            SubSeq(q, Kesimo(P, 2 * k - 1) + 1, Kesimo(P, 2 * k) - 1)]

\* t occurs in s when case is ignored
ContemSemCaixa(t, s) ==
    \E i \in 0..(Len(s) - Len(t)) :
        \A j \in 1..Len(t) : LowerChar(s[i + j]) = LowerChar(t[j])

\* the title of a product as text, empty when it has none
TituloTexto(p) ==
    IF "title" \in DOMAIN p /\ IsStr(p.title) THEN p.title.str ELSE <<>>

\* the products of lista, in order, whose title contains every quoted term
Esperado(lista, q) ==
    SelectSeq(lista,
        LAMBDA p : \A k \in 1..Len(TermosEntreAspas(q)) :
                      ContemSemCaixa(TermosEntreAspas(q)[k], TituloTexto(p)))

\* C6 as stated: for every product list and query the filter returns the
\* products, in input order, whose title contains every double-quoted term
\* of the query, case ignored; with no quoted term it returns the list
\* unchanged.
C6_FiltroExato ==
    (pc # "filtrar") =>
        /\ excecao = ""
        /\ todos_produtos = Esperado(buscados, busca)
        /\ PosicoesAspas(busca) = {} => todos_produtos = buscados

\* C6 on the lists in which no title is null: the statement holds there
C6_FiltroExatoTitulosNaoNulos ==
    (pc # "filtrar" /\ \A k \in 1..Len(buscados) : ~TituloNulo(buscados[k])) =>
        /\ excecao = ""
        /\ todos_produtos = Esperado(buscados, busca)
        /\ PosicoesAspas(busca) = {} => todos_produtos = buscados

===========================================================================
